---------------------------- MODULE Spec2Model ----------------------------
(***************************************************************************)
(* The Buddhabrot renderer of src/src/buddhabrot.rs: model() builds the    *)
(* Model, update() draws SAMPLES_PER_FRAME parameters, iterates            *)
(* z <- z^2 + c on each, accumulates the orbits of the escaping ones into  *)
(* counts and tone-maps counts into rgba; view() uploads rgba when dirty.  *)
(*                                                                         *)
(* Numbers.  An f64 is a binary fixed-point number with FracBits           *)
(* fractional bits, held as the integer value * Scale.  Sums and           *)
(* differences are exact; a product is rounded to the nearest              *)
(* representable value, ties to even, as binary64 rounds it.  The          *)
(* plane-to-pixel mapping and the tone-map quotient are evaluated exactly  *)
(* and then truncated toward zero by the `as i32` / `as u8` casts.  The    *)
(* u32 counters keep their saturation point under the name U32_MAX, with   *)
(* a small value so that saturation is reachable.                          *)
(*                                                                         *)
(* update() runs to completion on one thread; its loop positions are the   *)
(* values of pc, so that the states inside a frame can be observed.  No    *)
(* other handler runs while pc # "idle".                                   *)
(***************************************************************************)
EXTENDS Integers, Sequences, FiniteSets, TLC

(* ------------------------------ bounds -------------------------------- *)

\* Image resolution (1000 x 1000 in the source), scaled down.
WINDOW_WIDTH == 3
WINDOW_HEIGHT == 3
\* Iterations per sample (10_000 in the source), scaled down.
MAX_ITER == 3
\* Samples per frame (20_000 in the source), scaled down.
SAMPLES_PER_FRAME == 2
\* u32::MAX, scaled down.
U32_MAX == 3
\* Fractional bits of the fixed-point stand-in for f64.
FracBits == 10
\* Frames the model follows.
MaxFrames == 2

(* ----------------------------- arithmetic ----------------------------- *)

Scale == 2 ^ FracBits

\* One eighth, the grid the sampled parameters lie on.
Eighth == Scale \div 8

RE_MIN == -2 * Scale
RE_MAX == 1 * Scale
IM_MIN == -(3 * Scale) \div 2
IM_MAX == (3 * Scale) \div 2

\* n / d rounded to the nearest integer, ties to even (d > 0).
RoundDiv(n, d) ==
  LET q == n \div d
      r == n - q * d
  IN  IF 2 * r > d THEN q + 1
      ELSE IF 2 * r < d THEN q
      ELSE IF q % 2 = 0 THEN q ELSE q + 1

\* The f64 product a * b.
Mul(a, b) == RoundDiv(a * b, Scale)

\* n / d truncated toward zero (d > 0): a float-to-integer `as` cast.
TruncDiv(n, d) == IF n >= 0 THEN n \div d ELSE -((-n) \div d)

Clamp(x, lo, hi) == IF x < lo THEN lo ELSE IF x > hi THEN hi ELSE x

(* --------------------------- escape evaluation ------------------------ *)

\* Escapes with >= as the comparator.
Escapes_ge(zr, zi) == Mul(zr, zr) + Mul(zi, zi) >= 4 * Scale

\* zr * zr + zi * zi > 4.0
Escapes(zr, zi) == Mul(zr, zr) + Mul(zi, zi) > 4 * Scale

\* The body of the iteration loop from z0 = 0: the orbit holds the iterates
\* that passed the escape test, in order.
RECURSIVE Iterate(_, _, _, _, _, _)
Iterate(cr, ci, zr, zi, n, orb) ==
  IF n = MAX_ITER THEN [escaped |-> FALSE, orbit |-> orb]
  ELSE LET zr2 == Mul(zr, zr) - Mul(zi, zi) + cr
           zi2 == Mul(2 * zr, zi) + ci
       IN  IF Escapes(zr2, zi2)
           THEN [escaped |-> TRUE, orbit |-> orb]
           ELSE Iterate(cr, ci, zr2, zi2, n + 1, Append(orb, <<zr2, zi2>>))

Evaluate(cc) == Iterate(cc[1], cc[2], 0, 0, 0, <<>>)

(* ----------------------------- accumulation --------------------------- *)

\* ((orbit_re - RE_MIN) / (RE_MAX - RE_MIN) * (WINDOW_WIDTH as f64)) as i32
PixelX(re) == TruncDiv((re - RE_MIN) * WINDOW_WIDTH, RE_MAX - RE_MIN)

\* ((orbit_im - IM_MIN) / (IM_MAX - IM_MIN) * (WINDOW_HEIGHT as f64)) as i32
PixelY(im) == TruncDiv((im - IM_MIN) * WINDOW_HEIGHT, IM_MAX - IM_MIN)

\* (0..WINDOW_WIDTH as i32).contains(&x) && (0..WINDOW_HEIGHT as i32).contains(&y)
InBounds(x, y) == x >= 0 /\ x < WINDOW_WIDTH /\ y >= 0 /\ y < WINDOW_HEIGHT

\* (y as u32 * WINDOW_WIDTH + x as u32) as usize
Index(x, y) == y * WINDOW_WIDTH + x

\* SaturatingAdd as u32::wrapping_add(a, 1).
WrappingAdd(a) == (a + 1) % (U32_MAX + 1)

\* u32::saturating_add(a, 1)
SaturatingAdd(a) == IF a = U32_MAX THEN U32_MAX ELSE a + 1

\* NewMax without the update.
NewMax_stale(v, m) == m

\* NewMax keeping max_count above every counter but not equal to the largest.
NewMax_loose(v, m) == IF v >= m THEN v + 1 ELSE m

\* if v > model.max_count { model.max_count = v; }
NewMax(v, m) == IF v > m THEN v ELSE m

\* ShouldProject without the test of escaped.
ShouldProject_always(esc) == TRUE

\* if escaped { ... }
ShouldProject(esc) == esc

(* ------------------------------ tone map ------------------------------ *)

Pixels == 0 .. (WINDOW_WIDTH * WINDOW_HEIGHT - 1)
Bytes == 0 .. (WINDOW_WIDTH * WINDOW_HEIGHT * 4 - 1)

\* f64::ln on the integers 1, 2, ..., in millionths.
LnTable ==
  << 0, 693147, 1098612, 1386294, 1609438, 1791759, 1945910, 2079442,
     2197225, 2302585, 2397895, 2484907, 2564949, 2639057, 2708050,
     2772589, 2833213, 2890372, 2944439, 2995732 >>

Ln(n) == LnTable[n]

\* ToneByte with c.ln() for (c + 1.0).ln(); ln 0 is -inf and clamps to 0.
ToneByte_noLog1p(cnt, m) ==
  LET max_c == IF m > 1 THEN m ELSE 1
      denom == Ln(max_c + 1)
  IN  IF cnt = 0 THEN 0 ELSE Clamp(TruncDiv(Ln(cnt) * 255, denom), 0, 255)

\* ((c + 1.0).ln() / denom * 255.0).clamp(0.0, 255.0) as u8
ToneByte(cnt, m) ==
  LET max_c == IF m > 1 THEN m ELSE 1
      denom == Ln(max_c + 1)
  IN  Clamp(TruncDiv(Ln(cnt + 1) * 255, denom), 0, 255)

\* The tone-mapping loop: four bytes per pixel, R = G = B = t and A = 255.
ToneMapBuffer(cnts, m) ==
  [o \in Bytes |-> IF o % 4 = 3 THEN 255 ELSE ToneByte(cnts[o \div 4], m)]

(* -------------------------------- state ------------------------------- *)

VARIABLES
  counts,     \* Model.counts
  rgba,       \* Model.rgba
  max_count,  \* Model.max_count
  dirty,      \* Model.dirty
  texture,    \* the bytes held by Model.texture
  pc,         \* position in update(): "idle" outside it
  i,          \* samples drawn in the current frame
  c,          \* (cr, ci) of the sample being processed
  orbit,      \* the orbit buffer
  escaped,    \* the escaped flag of the sample being processed
  j,          \* position of the projection loop in orbit
  idx,        \* idx of the last projected point, -1 when it was dropped
  old,        \* history: counts[idx] as read by the last increment
  frame,      \* history: frames completed
  last,       \* history: the handler that ran last
  pre,        \* history: counts and max_count when the frame began
  nesc        \* history: escaping samples drawn in the current frame

vars == << counts, rgba, max_count, dirty, texture, pc, i, c, orbit,
           escaped, j, idx, old, frame, last, pre, nesc >>

\* Parameters the sampler can return, in [RE_MIN, RE_MAX) x [IM_MIN, IM_MAX):
\* 0 (never escapes), -2 (|z|^2 = 4 at every step), -2 - 1.5i (escapes at
\* step 1), and four escaping ones whose orbits fall inside the image, on a
\* pixel twice, to the right of it and just below its first row.
Samples ==
  { <<0, 0>>, <<-16 * Eighth, 0>>, <<-16 * Eighth, -12 * Eighth>>,
    <<3 * Eighth, -8 * Eighth>>, <<5 * Eighth, -6 * Eighth>>,
    <<5 * Eighth, 4 * Eighth>>, <<6 * Eighth, 4 * Eighth>> }

\* model(): zeroed buffers, max_count 1, dirty true.
Init ==
  /\ counts = [p \in Pixels |-> 0]
  /\ rgba = [o \in Bytes |-> 0]
  /\ max_count = 1
  /\ dirty = TRUE
  /\ texture = [o \in Bytes |-> 0]
  /\ pc = "idle"
  /\ i = 0
  /\ c = <<0, 0>>
  /\ orbit = <<>>
  /\ escaped = FALSE
  /\ j = 0
  /\ idx = -1
  /\ old = -1
  /\ frame = 0
  /\ last = "model"
  /\ pre = [counts |-> [p \in Pixels |-> 0], max_count |-> 1]
  /\ nesc = 0

(* ------------------------------- update ------------------------------- *)

\* UpdateBegin clearing the Histogram and max_count on every frame.
UpdateBegin_reset ==
  /\ pc = "idle"
  /\ frame < MaxFrames
  /\ pc' = "sample"
  /\ i' = 0
  /\ orbit' = <<>>
  /\ counts' = [p \in Pixels |-> 0]
  /\ max_count' = 1
  /\ pre' = [counts |-> counts', max_count |-> max_count']
  /\ nesc' = 0
  /\ UNCHANGED << rgba, dirty, texture, c, escaped, j, idx, old,
                  frame, last >>

\* update() is entered: a fresh orbit buffer, the sample loop at 0.
UpdateBegin ==
  /\ pc = "idle"
  /\ frame < MaxFrames
  /\ pc' = "sample"
  /\ i' = 0
  /\ orbit' = <<>>
  /\ pre' = [counts |-> counts, max_count |-> max_count]
  /\ nesc' = 0
  /\ UNCHANGED << counts, rgba, max_count, dirty, texture, c, escaped, j,
                  idx, old, frame, last >>

\* One pass of the sample loop up to `if escaped`: draw c, clear the orbit,
\* iterate.
DrawSample ==
  /\ pc = "sample"
  /\ i < SAMPLES_PER_FRAME
  /\ \E cc \in Samples :
       LET res == Evaluate(cc)
       IN  /\ c' = cc
           /\ orbit' = res.orbit
           /\ escaped' = res.escaped
           /\ nesc' = IF res.escaped THEN nesc + 1 ELSE nesc
           /\ pc' = IF ShouldProject(res.escaped) /\ Len(res.orbit) > 0
                    THEN "project" ELSE "sample"
  /\ i' = i + 1
  /\ j' = 1
  /\ UNCHANGED << counts, rgba, max_count, dirty, texture, idx, old,
                  frame, last, pre >>

\* One pass of the projection loop: map orbit[j] to a pixel and, when it is
\* within bounds, increment its counter and raise max_count.
ProjectPoint ==
  /\ pc = "project"
  /\ j <= Len(orbit)
  /\ LET x == PixelX(orbit[j][1])
         y == PixelY(orbit[j][2])
     IN  IF InBounds(x, y)
         THEN LET v == SaturatingAdd(counts[Index(x, y)])
              IN  /\ idx' = Index(x, y)
                  /\ old' = counts[Index(x, y)]
                  /\ counts' = [counts EXCEPT ![Index(x, y)] = v]
                  /\ max_count' = NewMax(v, max_count)
         ELSE /\ idx' = -1
              /\ old' = -1
              /\ UNCHANGED << counts, max_count >>
  /\ j' = j + 1
  /\ pc' = IF j = Len(orbit) THEN "sample" ELSE "project"
  /\ UNCHANGED << rgba, dirty, texture, i, c, orbit, escaped, frame, last,
                  pre, nesc >>

\* ToneMap with max_c read before the sample loop.
ToneMap_hoisted ==
  /\ pc = "sample"
  /\ i = SAMPLES_PER_FRAME
  /\ rgba' = ToneMapBuffer(counts, pre.max_count)
  /\ dirty' = TRUE
  /\ pc' = "idle"
  /\ frame' = frame + 1
  /\ last' = "update"
  /\ c' = <<0, 0>>
  /\ orbit' = <<>>
  /\ escaped' = FALSE
  /\ j' = 0
  /\ idx' = -1
  /\ old' = -1
  /\ UNCHANGED << counts, max_count, texture, i, pre, nesc >>

\* After the sample loop: rewrite rgba from counts and max_count, set dirty;
\* update() returns and its locals are gone.
ToneMap ==
  /\ pc = "sample"
  /\ i = SAMPLES_PER_FRAME
  /\ rgba' = ToneMapBuffer(counts, max_count)
  /\ dirty' = TRUE
  /\ pc' = "idle"
  /\ frame' = frame + 1
  /\ last' = "update"
  /\ c' = <<0, 0>>
  /\ orbit' = <<>>
  /\ escaped' = FALSE
  /\ j' = 0
  /\ idx' = -1
  /\ old' = -1
  /\ UNCHANGED << counts, max_count, texture, i, pre, nesc >>

(* -------------------------------- view -------------------------------- *)

\* View with a consume-and-clear of dirty.
View_clear ==
  /\ pc = "idle"
  /\ texture' = IF dirty THEN rgba ELSE texture
  /\ dirty' = FALSE
  /\ last' = "view"
  /\ UNCHANGED << counts, rgba, max_count, pc, i, c, orbit, escaped, j,
                  idx, old, frame, pre, nesc >>

\* view(): upload rgba to the texture when dirty; the Model is borrowed
\* immutably, so dirty stays as it is.
View ==
  /\ pc = "idle"
  /\ texture' = IF dirty THEN rgba ELSE texture
  /\ last' = "view"
  /\ UNCHANGED << counts, rgba, max_count, dirty, pc, i, c, orbit, escaped,
                  j, idx, old, frame, pre, nesc >>

Next == UpdateBegin \/ DrawSample \/ ProjectPoint \/ ToneMap \/ View

Spec == Init /\ [][Next]_vars

(* ------------------- the escape evaluation on its own ----------------- *)

\* Parameters on the quarter grid of [-2, 2] x [-2, 2], 2 + 0i among them.
EvalInputs ==
  { <<2 * a * Eighth, 2 * b * Eighth>> : a \in -8 .. 8, b \in -8 .. 8 }

\* The state before the iteration loop of one sample, c given.
EvalInit ==
  /\ counts = [p \in Pixels |-> 0]
  /\ rgba = [o \in Bytes |-> 0]
  /\ max_count = 1
  /\ dirty = TRUE
  /\ texture = [o \in Bytes |-> 0]
  /\ pc = "eval"
  /\ i = 0
  /\ c \in EvalInputs
  /\ orbit = <<>>
  /\ escaped = FALSE
  /\ j = 0
  /\ idx = -1
  /\ old = -1
  /\ frame = 0
  /\ last = "model"
  /\ pre = [counts |-> [p \in Pixels |-> 0], max_count |-> 1]
  /\ nesc = 0

\* The iteration loop of one sample.
EvalStep ==
  /\ pc = "eval"
  /\ orbit' = Evaluate(c).orbit
  /\ escaped' = Evaluate(c).escaped
  /\ pc' = "evaluated"
  /\ UNCHANGED << counts, rgba, max_count, dirty, texture, i, c, j, idx,
                  old, frame, last, pre, nesc >>

EvalSpec == EvalInit /\ [][EvalStep]_vars

(* ------------------------------- claims ------------------------------- *)

Largest(cnts) == CHOOSE m \in {cnts[p] : p \in Pixels} :
                   \A p \in Pixels : cnts[p] <= m

\* C1: every Histogram counter starts at 0 and no step of any frame lowers
\* it.
CountersMonotone ==
  /\ \A p \in Pixels : counts[p] = 0
  /\ [][\A p \in Pixels : counts'[p] >= counts[p]]_vars

\* C1 witness: in a second frame a counter that was already positive when
\* the frame began has grown further.
CountersMonotoneWitness ==
  /\ frame = 1
  /\ \E p \in Pixels : pre.counts[p] > 0 /\ counts[p] > pre.counts[p]

\* C2: after initialization and after any frame, max_count is at least 1
\* and at least every counter.
MaxConsistent ==
  pc = "idle" =>
    /\ max_count >= 1
    /\ \A p \in Pixels : max_count >= counts[p]

\* C2 witness: a frame has ended with a counter of 2 or more that equals
\* max_count.
MaxConsistentWitness ==
  /\ pc = "idle"
  /\ frame >= 1
  /\ max_count >= 2
  /\ \E p \in Pixels : counts[p] = max_count

\* floor((re - re_min) / (re_max - re_min) * width)
FloorX(re) == ((re - RE_MIN) * WINDOW_WIDTH) \div (RE_MAX - RE_MIN)

\* floor((im - im_min) / (im_max - im_min) * height)
FloorY(im) == ((im - IM_MIN) * WINDOW_HEIGHT) \div (IM_MAX - IM_MIN)

\* C3: the accumulation of a trajectory point increments exactly the
\* counter at the floored pixel coordinates when they lie in the image, and
\* changes no counter when they lie outside it.
ProjectsAtFloor ==
  [][(pc = "project" /\ j <= Len(orbit)) =>
       LET px == FloorX(orbit[j][1])
           py == FloorY(orbit[j][2])
       IN  IF InBounds(px, py)
           THEN counts' = [counts EXCEPT ![Index(px, py)] =
                             IF @ = U32_MAX THEN @ ELSE @ + 1]
           ELSE counts' = counts]_vars

\* C4: a frame whose samples were all non-escaping ends with counts and
\* max_count as they were when it began, and only an escaped sample is ever
\* in the projection loop.
NonEscapingDiscard ==
  /\ (pc = "project" => escaped)
  /\ (pc = "idle" /\ frame >= 1 /\ nesc = 0) =>
       (counts = pre.counts /\ max_count = pre.max_count)

\* C4 witness: a second frame of non-escaping samples only has ended over a
\* Histogram that is not empty.
NonEscapingDiscardWitness ==
  /\ pc = "idle"
  /\ frame = 2
  /\ nesc = 0
  /\ \E p \in Pixels : counts[p] > 0

\* |z|^2 as the escape test computes it.
Norm2(z) == Mul(z[1], z[1]) + Mul(z[2], z[2])

\* The k-th iterate of z <- z^2 + c from z = 0.
RECURSIVE Z(_, _)
Z(cc, k) ==
  IF k = 0 THEN <<0, 0>>
  ELSE LET z == Z(cc, k - 1)
       IN  << Mul(z[1], z[1]) - Mul(z[2], z[2]) + cc[1],
              Mul(2 * z[1], z[2]) + cc[2] >>

\* The first step from k on, up to MAX_ITER, with |z|^2 > 4; 0 if none.
RECURSIVE FirstEscape(_, _)
FirstEscape(cc, k) ==
  IF k > MAX_ITER THEN 0
  ELSE IF Norm2(Z(cc, k)) > 4 * Scale THEN k
  ELSE FirstEscape(cc, k + 1)

\* C5: escape is detected at the first step k <= MAX_ITER with |z|^2
\* strictly above 4; the orbit is then the k-1 earlier iterates in order,
\* without the escaping one; an iterate with |z|^2 = 4 is recorded; for
\* c = 2 the orbit is the single point (2, 0).
EscapeAtFirst ==
  pc = "evaluated" =>
    LET k == FirstEscape(c, 1)
    IN  /\ escaped = (k # 0)
        /\ Len(orbit) = (IF k = 0 THEN MAX_ITER ELSE k - 1)
        /\ \A m \in 1 .. Len(orbit) :
             orbit[m] = Z(c, m) /\ Norm2(orbit[m]) <= 4 * Scale
        /\ (c = <<2 * Scale, 0>> =>
              escaped /\ orbit = << <<2 * Scale, 0>> >>)

\* C5 witness: c = 2 has been evaluated; its first iterate, of |z|^2 = 4,
\* is the orbit and the escape came at step 2.
EscapeAtFirstWitness ==
  /\ pc = "evaluated"
  /\ c = <<2 * Scale, 0>>
  /\ escaped
  /\ Len(orbit) = 1
  /\ Norm2(orbit[1]) = 4 * Scale

\* C6: an increment never lowers the counter it writes; one that finds the
\* counter at U32_MAX leaves it there, and max_count still bounds every
\* counter.
SaturatesAtMax ==
  idx # -1 =>
    /\ counts[idx] >= old
    /\ old = U32_MAX =>
         (counts[idx] = U32_MAX /\ \A p \in Pixels : max_count >= counts[p])

\* C6 witness: an increment has read a counter that already held U32_MAX.
SaturatesAtMaxWitness ==
  /\ idx # -1
  /\ old = U32_MAX
  /\ counts[idx] = U32_MAX

\* C7: once a frame has completed every pixel has three equal colour bytes
\* in 0..255 and opacity 255; at the end of a frame a counter equal to
\* max_count shows 255 and a counter of 0 shows 0.
ToneRange ==
  frame >= 1 =>
    \A p \in Pixels :
      /\ rgba[4 * p] \in 0 .. 255
      /\ rgba[4 * p + 1] = rgba[4 * p]
      /\ rgba[4 * p + 2] = rgba[4 * p]
      /\ rgba[4 * p + 3] = 255
      /\ pc = "idle" =>
           /\ (counts[p] = max_count => rgba[4 * p] = 255)
           /\ (counts[p] = 0 => rgba[4 * p] = 0)

\* C7 witness: a frame has ended with a pixel at max_count, a pixel at 0
\* and a pixel of an intensity in between.
ToneRangeWitness ==
  /\ pc = "idle"
  /\ frame >= 1
  /\ \E p, q, r \in Pixels :
       /\ counts[p] = max_count /\ rgba[4 * p] = 255
       /\ counts[q] = 0 /\ rgba[4 * q] = 0
       /\ rgba[4 * r] > 0 /\ rgba[4 * r] < 255

\* C8: whenever a frame has completed, all SAMPLES_PER_FRAME samples were
\* drawn and every byte of rgba is the tone map of counts and max_count as
\* they are at the end of that frame.
FrameRefresh ==
  (pc = "idle" /\ frame >= 1) =>
    /\ i = SAMPLES_PER_FRAME
    /\ \A p \in Pixels :
         /\ \A k \in 0 .. 2 : rgba[4 * p + k] = ToneByte(counts[p], max_count)
         /\ rgba[4 * p + 3] = 255

\* C8 witness: a second frame has ended in which max_count grew, and some
\* pixel shows an intensity other than the one the earlier maximum gives.
FrameRefreshWitness ==
  /\ pc = "idle"
  /\ frame = 2
  /\ max_count > pre.max_count
  /\ \E p \in Pixels :
       /\ rgba[4 * p] = ToneByte(counts[p], max_count)
       /\ rgba[4 * p] # ToneByte(counts[p], pre.max_count)

\* C9: dirty is true in every reachable state, and after a view call the
\* texture holds rgba.
DirtyAlways ==
  /\ dirty = TRUE
  /\ last = "view" => texture = rgba

\* C9 witness: view has run after a frame, and again, and the texture holds
\* the frame's image.
DirtyAlwaysWitness ==
  /\ last = "view"
  /\ frame >= 1
  /\ dirty
  /\ texture = rgba
  /\ \E o \in Bytes : o % 4 = 0 /\ texture[o] = 255

\* C10: in every state max_count is the larger of 1 and the largest
\* counter, and no step lowers max_count.
MaxTight ==
  /\ [](max_count = IF Largest(counts) > 1 THEN Largest(counts) ELSE 1)
  /\ [][max_count' >= max_count]_vars

\* C10 witness: inside a frame, between two increments, the counter just
\* written equals a max_count of 2 or more.
MaxTightWitness ==
  /\ pc = "project"
  /\ j <= Len(orbit)
  /\ idx # -1
  /\ max_count >= 2
  /\ counts[idx] = max_count

============================================================================
